---- MODULE Spec2Model ----
\* Model of the rodbus type model and client-side response parsers:
\* rodbus/src/types.rs, rodbus/src/service/validation.rs and
\* rodbus/src/service/serialization/client_response_parsers.rs.
\*
\* Every operation of the library that is modelled is an action that draws
\* its arguments from the sample sets below, applies the operation as the
\* code computes it and records the call in (op, inp, res).  The bit
\* iterator is an object with its own state (bit_iter) that is advanced by
\* an action per call of next().
\*
\* rodbus/src/tcp/tls/client.rs adds the certificate verifier of the
\* self-signed mode and the request queue of a client channel.  The task that
\* serves the queue is modelled as the state machine of the specification's
\* section 4.5, under the specification ChannelSpec.
EXTENDS Integers, Sequences, FiniteSets, TLC

VARIABLES op, inp, res, cursor, bit_iter, bit_out, reg_iter, reg_out

\* the client channel: the state of its task, the request queue and whether
\* every sender is gone, the request being served, what each reply slot has
\* received, the requests taken from the queue and the frames written (each
\* with the connection it was on), the number of connections made, the last
\* step of the task and the number of requests issued by callers
VARIABLES state, queue, sender_dropped, in_flight, replies, started, wire,
          conn, step, issued

library == <<op, inp, res, cursor, bit_iter, bit_out, reg_iter, reg_out>>

channel == <<state, queue, sender_dropped, in_flight, replies, started, wire,
             conn, step, issued>>

vars == <<library, channel>>

-----------------------------------------------------------------------------
\* Bounds of the model

\* counts 0..MaxCount are drawn for every range argument
MaxCount == 9
\* longest run of data bytes after the byte-count byte of a read response
MaxData == 4
\* largest declared byte count drawn for a read response
MaxDeclared == 5
\* longest buffer handed to an iterator
MaxIterBytes == 2
\* longest explicit value vector of a WriteMultiple
MaxValues == 2
\* longest buffer handed to a register iterator
MaxRegIterBytes == 4
\* max_queued_requests of the channel
QueueCapacity == 2
\* requests issued by the callers of a channel
MaxRequests == 3
\* connections a channel establishes
MaxConnections == 2
\* most intermediate certificates presented by a server
MaxIntermediates == 1
\* latest time of a certificate check, in seconds since the epoch
MaxTime == 5

-----------------------------------------------------------------------------
\* Program constants

\* std::u16::MAX
U16_MAX == 65535
\* crate::constants::coil
COIL_ON == 65280
COIL_OFF == 0
\* crate::constants::limits
MAX_READ_COILS_COUNT == 2000
MAX_READ_REGISTERS_COUNT == 125
MAX_WRITE_COILS_COUNT == 1968
MAX_WRITE_REGISTERS_COUNT == 123

-----------------------------------------------------------------------------
\* Results and errors

Ok(v) == [ok |-> TRUE, val |-> v]
Err(e) == [ok |-> FALSE, err |-> e]

CountOfZero == <<"InvalidRange::CountOfZero">>
AddressOverflow(start, count) == <<"InvalidRange::AddressOverflow", start, count>>
CountTooBigForType(count, max) == <<"InvalidRequest::CountTooBigForType", count, max>>
CountTooBigForU16(len) == <<"InvalidRequest::CountTooBigForU16", len>>
UnknownCoilState(value) == <<"ADUParseError::UnknownCoilState", value>>
InsufficientBytes == <<"ADUParseError::InsufficientBytes">>
InsufficientBytesForByteCount(declared, remaining) == <<"ADUParseError::InsufficientBytesForByteCount", declared, remaining>>
RequestByteCountMismatch(expected, declared) == <<"ADUParseError::RequestByteCountMismatch", expected, declared>>
ReplyEchoMismatch == <<"ADUParseError::ReplyEchoMismatch">>
BadBitIteratorArgs == <<"InternalError::BadBitIteratorArgs">>
BadRegisterIteratorArgs == <<"InternalError::BadRegisterIteratorArgs">>

\* the outcome of an arithmetic overflow in a build with overflow checks
Panic == [ok |-> FALSE, panic |-> "attempt to add with overflow"]

-----------------------------------------------------------------------------
\* types.rs

AddressRange(start, count) == [start |-> start, count |-> count]
Indexed(index, value) == [index |-> index, value |-> value]
WriteMultiple(start, values) == [start |-> start, values |-> values]

\* AddressRange::try_from with the comparison against max_start weakened
AddressRange_try_from_off_by_one(start, count) ==
    IF count = 0
    THEN Err(CountOfZero)
    ELSE LET max_start == U16_MAX - (count - 1)
         IN  IF start > max_start + 1
             THEN Err(AddressOverflow(start, count))
             ELSE Ok(AddressRange(start, count))

AddressRange_try_from(start, count) ==
    IF count = 0
    THEN Err(CountOfZero)
    ELSE LET max_start == U16_MAX - (count - 1)
         IN  IF start > max_start
             THEN Err(AddressOverflow(start, count))
             ELSE Ok(AddressRange(start, count))

\* coil_from_u16 that takes every non-zero value for ON
coil_from_u16_lenient(value) ==
    IF value = COIL_OFF THEN Ok(FALSE) ELSE Ok(TRUE)

coil_from_u16(value) ==
    IF value = COIL_ON THEN Ok(TRUE)
    ELSE IF value = COIL_OFF THEN Ok(FALSE)
    ELSE Err(UnknownCoilState(value))

coil_to_u16(value) == IF value THEN COIL_ON ELSE COIL_OFF

\* to_address_range that builds the range without AddressRange::try_from
to_address_range_unchecked(wm) ==
    IF Len(wm.values) <= U16_MAX
    THEN Ok(AddressRange(wm.start, Len(wm.values)))
    ELSE Err(CountTooBigForU16(Len(wm.values)))

\* u16::try_from(usize) succeeds exactly for lengths up to u16::MAX; the `?`
\* passes the InvalidRange of AddressRange::try_from on
to_address_range(wm) ==
    IF Len(wm.values) <= U16_MAX
    THEN AddressRange_try_from(wm.start, Len(wm.values))
    ELSE Err(CountTooBigForU16(Len(wm.values)))

-----------------------------------------------------------------------------
\* service/validation.rs

\* check_validity with the bound excluded
check_validity_strict(range, max_count) ==
    IF range.count >= max_count
    THEN Err(CountTooBigForType(range.count, max_count))
    ELSE Ok(<<>>)

check_validity(range, max_count) ==
    IF range.count > max_count
    THEN Err(CountTooBigForType(range.count, max_count))
    ELSE Ok(<<>>)

check_validity_for_read_bits(range) == check_validity(range, MAX_READ_COILS_COUNT)
check_validity_for_read_registers(range) == check_validity(range, MAX_READ_REGISTERS_COUNT)
check_validity_for_write_multiple_coils(range) == check_validity(range, MAX_WRITE_COILS_COUNT)
check_validity_for_write_multiple_registers(range) == check_validity(range, MAX_WRITE_REGISTERS_COUNT)

Checks == {"read_bits", "read_registers", "write_multiple_coils", "write_multiple_registers"}

check_validity_for(fn, range) ==
    CASE fn = "read_bits" -> check_validity_for_read_bits(range)
      [] fn = "read_registers" -> check_validity_for_read_registers(range)
      [] fn = "write_multiple_coils" -> check_validity_for_write_multiple_coils(range)
      [] fn = "write_multiple_registers" -> check_validity_for_write_multiple_registers(range)

MaxCountOf(fn) ==
    CASE fn = "read_bits" -> 2000
      [] fn = "read_registers" -> 125
      [] fn = "write_multiple_coils" -> 1968
      [] fn = "write_multiple_registers" -> 123

-----------------------------------------------------------------------------
\* util/cursor.rs and util/bits.rs

\* A ReadCursor is the window of bytes not yet read.  Every read returns the
\* value read (or the error) together with the cursor it leaves behind.
Read(ret, rest) == [ret |-> ret, cursor |-> rest]

read_u8(c) ==
    IF Len(c) = 0
    THEN Read(Err(InsufficientBytes), c)
    ELSE Read(Ok(Head(c)), Tail(c))

read_u16_be(c) ==
    LET high == read_u8(c)
    IN  IF ~high.ret.ok
        THEN high
        ELSE LET low == read_u8(high.cursor)
             IN  IF ~low.ret.ok
                 THEN low
                 ELSE Read(Ok(high.ret.val * 256 + low.ret.val), low.cursor)

read_bytes(c, n) ==
    IF Len(c) < n
    THEN Read(Err(InsufficientBytes), c)
    ELSE Read(Ok(SubSeq(c, 1, n)), SubSeq(c, n + 1, Len(c)))

num_bytes_for_bits(count) == (count + 7) \div 8

\* impl ParseRequest for AddressRange
AddressRange_parse(c) ==
    LET start == read_u16_be(c)
    IN  IF ~start.ret.ok
        THEN start
        ELSE LET count == read_u16_be(start.cursor)
             IN  IF ~count.ret.ok
                 THEN count
                 ELSE Read(AddressRange_try_from(start.ret.val, count.ret.val),
                           count.cursor)

-----------------------------------------------------------------------------
\* service/serialization/client_response_parsers.rs

\* (byte & (1u8 << i)) != 0
BitOf(byte, i) == (byte \div (2 ^ i)) % 2 = 1

\* Indexed<u16>::parse_response that compares the address only
parse_response_indexed_u16_address_only(c, request) ==
    LET index == read_u16_be(c)
    IN  IF ~index.ret.ok
        THEN index
        ELSE LET value == read_u16_be(index.cursor)
             IN  IF ~value.ret.ok
                 THEN value
                 ELSE LET response == Indexed(index.ret.val, value.ret.val)
                      IN  IF request.index # response.index
                          THEN Read(Err(ReplyEchoMismatch), value.cursor)
                          ELSE Read(Ok(response), value.cursor)

\* impl ParseResponse<Indexed<u16>> for Indexed<u16>
parse_response_indexed_u16(c, request) ==
    LET index == read_u16_be(c)
    IN  IF ~index.ret.ok
        THEN index
        ELSE LET value == read_u16_be(index.cursor)
             IN  IF ~value.ret.ok
                 THEN value
                 ELSE LET response == Indexed(index.ret.val, value.ret.val)
                      IN  IF request # response
                          THEN Read(Err(ReplyEchoMismatch), value.cursor)
                          ELSE Read(Ok(response), value.cursor)

\* impl ParseResponse<Indexed<bool>> for Indexed<bool>
parse_response_indexed_bool(c, request) ==
    LET index == read_u16_be(c)
    IN  IF ~index.ret.ok
        THEN index
        ELSE LET raw == read_u16_be(index.cursor)
             IN  IF ~raw.ret.ok
                 THEN raw
                 ELSE LET value == coil_from_u16(raw.ret.val)
                      IN  IF ~value.ok
                          THEN Read(value, raw.cursor)
                          ELSE LET response == Indexed(index.ret.val, value.val)
                               IN  IF response # request
                                   THEN Read(Err(ReplyEchoMismatch), raw.cursor)
                                   ELSE Read(Ok(response), raw.cursor)

\* u16 addition: a build with overflow checks panics when the sum does not
\* fit, a build without them wraps
Overflows(a, b) == a + b > U16_MAX
WrappingAdd(a, b) == (a + b) % (U16_MAX + 1)

\* the loop of Vec<Indexed<bool>>::parse_response reading the high-order bit
\* of every byte first
RECURSIVE bits_loop_high_order_first(_, _, _, _, _, _)
bits_loop_high_order_first(bytes, request, k, count, values, checks) ==
    IF k = 8 * Len(bytes) \/ count = request.count
    THEN Ok(values)
    ELSE LET byte == bytes[(k \div 8) + 1]
             i == k % 8
             value == BitOf(byte, 7 - i)
         IN  IF checks /\ (Overflows(count, request.start) \/ Overflows(count, 1))
             THEN Panic
             ELSE bits_loop_high_order_first(bytes, request, k + 1, WrappingAdd(count, 1),
                     Append(values, Indexed(WrappingAdd(count, request.start), value)),
                     checks)

\* The nested loops `for byte in bytes { for i in 0..8 { .. } }` of
\* Vec<Indexed<bool>>::parse_response; k counts the iterations done, so the
\* current byte is bytes[k / 8] and i = k % 8.
RECURSIVE bits_loop(_, _, _, _, _, _)
bits_loop(bytes, request, k, count, values, checks) ==
    IF k = 8 * Len(bytes) \/ count = request.count
    THEN Ok(values)
    ELSE LET byte == bytes[(k \div 8) + 1]
             i == k % 8
             value == BitOf(byte, i)
         IN  IF checks /\ (Overflows(count, request.start) \/ Overflows(count, 1))
             THEN Panic
             ELSE bits_loop(bytes, request, k + 1, WrappingAdd(count, 1),
                     Append(values, Indexed(WrappingAdd(count, request.start), value)),
                     checks)

\* Vec<Indexed<bool>>::parse_response without the comparison of the declared
\* byte count against the request
parse_response_bits_no_request_check(c, request, checks) ==
    LET declared == read_u8(c)
    IN  IF ~declared.ret.ok
        THEN declared
        ELSE LET byte_count == declared.ret.val
                 rest == declared.cursor
             IN  IF byte_count # Len(rest)
                 THEN Read(Err(InsufficientBytesForByteCount(byte_count, Len(rest))), rest)
                 ELSE LET bytes == read_bytes(rest, byte_count)
                      IN  IF ~bytes.ret.ok
                          THEN bytes
                          ELSE Read(bits_loop(bytes.ret.val, request, 0, 0, <<>>, checks),
                                    bytes.cursor)

\* impl ParseResponse<AddressRange> for Vec<Indexed<bool>>
parse_response_bits(c, request, checks) ==
    LET declared == read_u8(c)
    IN  IF ~declared.ret.ok
        THEN declared
        ELSE LET byte_count == declared.ret.val
                 rest == declared.cursor
                 expected_byte_count == num_bytes_for_bits(request.count)
             IN  IF byte_count # expected_byte_count
                 THEN Read(Err(RequestByteCountMismatch(expected_byte_count, byte_count)), rest)
                 ELSE IF byte_count # Len(rest)
                 THEN Read(Err(InsufficientBytesForByteCount(byte_count, Len(rest))), rest)
                 ELSE LET bytes == read_bytes(rest, byte_count)
                      IN  IF ~bytes.ret.ok
                          THEN bytes
                          ELSE Read(bits_loop(bytes.ret.val, request, 0, 0, <<>>, checks),
                                    bytes.cursor)

\* The loop `while !cursor.is_empty()` of Vec<Indexed<u16>>::parse_response
RECURSIVE registers_loop(_, _, _, _)
registers_loop(c, index, values, checks) ==
    IF Len(c) = 0
    THEN Read(Ok(values), c)
    ELSE LET value == read_u16_be(c)
         IN  IF ~value.ret.ok
             THEN value
             ELSE IF checks /\ Overflows(index, 1)
             THEN Read(Panic, value.cursor)
             ELSE registers_loop(value.cursor, WrappingAdd(index, 1),
                     Append(values, Indexed(index, value.ret.val)), checks)

\* Vec<Indexed<u16>>::parse_response that only refuses a body with too few
\* bytes after the byte count
parse_response_registers_surplus_allowed(c, request, checks) ==
    LET declared == read_u8(c)
    IN  IF ~declared.ret.ok
        THEN declared
        ELSE LET byte_count == declared.ret.val
                 rest == declared.cursor
                 expected_byte_count == 2 * request.count
             IN  IF byte_count # expected_byte_count
                 THEN Read(Err(RequestByteCountMismatch(expected_byte_count, byte_count)), rest)
                 ELSE IF Len(rest) < expected_byte_count
                 THEN Read(Err(InsufficientBytesForByteCount(byte_count, Len(rest))), rest)
                 ELSE registers_loop(rest, request.start, <<>>, checks)

\* impl ParseResponse<AddressRange> for Vec<Indexed<u16>>
parse_response_registers(c, request, checks) ==
    LET declared == read_u8(c)
    IN  IF ~declared.ret.ok
        THEN declared
        ELSE LET byte_count == declared.ret.val
                 rest == declared.cursor
                 expected_byte_count == 2 * request.count
             IN  IF byte_count # expected_byte_count
                 THEN Read(Err(RequestByteCountMismatch(expected_byte_count, byte_count)), rest)
                 ELSE IF expected_byte_count # Len(rest)
                 THEN Read(Err(InsufficientBytesForByteCount(byte_count, Len(rest))), rest)
                 ELSE registers_loop(rest, request.start, <<>>, checks)

\* AddressRange::parse_response that compares the start address only
parse_response_write_multiple_start_only(c, request) ==
    LET range == to_address_range(request)
    IN  IF ~range.ok
        THEN Read(range, c)
        ELSE LET parsed == AddressRange_parse(c)
             IN  IF ~parsed.ret.ok
                 THEN parsed
                 ELSE IF range.val.start # parsed.ret.val.start
                 THEN Read(Err(ReplyEchoMismatch), parsed.cursor)
                 ELSE Read(Ok(parsed.ret.val), parsed.cursor)

\* impl ParseResponse<WriteMultiple<bool>> for AddressRange
parse_response_write_multiple_bool(c, request) ==
    LET range == to_address_range(request)
    IN  IF ~range.ok
        THEN Read(range, c)
        ELSE LET parsed == AddressRange_parse(c)
             IN  IF ~parsed.ret.ok
                 THEN parsed
                 ELSE IF range.val # parsed.ret.val
                 THEN Read(Err(ReplyEchoMismatch), parsed.cursor)
                 ELSE Read(Ok(parsed.ret.val), parsed.cursor)

\* impl ParseResponse<WriteMultiple<u16>> for AddressRange
parse_response_write_multiple_u16(c, request) ==
    LET range == to_address_range(request)
    IN  IF ~range.ok
        THEN Read(range, c)
        ELSE LET parsed == AddressRange_parse(c)
             IN  IF ~parsed.ret.ok
                 THEN parsed
                 ELSE IF range.val # parsed.ret.val
                 THEN Read(Err(ReplyEchoMismatch), parsed.cursor)
                 ELSE Read(Ok(parsed.ret.val), parsed.cursor)

-----------------------------------------------------------------------------
\* Arguments drawn by the actions

StartSample == {0, 1, 2, 5, 10, 32768, 65533, 65534, 65535}
CountSample ==
    (0..MaxCount) \cup (122..126) \cup (1967..1969) \cup (1999..2001)
        \cup {3000, 32768, 65534, 65535}
U16Sample == {0, 1, 5, 10, 255, 256, 460, 65280, 65281, 65535}

\* the ranges AddressRange::try_from constructs from the samples
ValidRanges ==
    {AddressRange(s, c) : <<s, c>> \in
        {p \in StartSample \X CountSample : AddressRange_try_from(p[1], p[2]).ok}}

\* value vectors: the short ones, and vectors around the u16 boundary
LongLens == {65534, 65535, 65536, 65537}
ValueVecs ==
    UNION {[1..n -> {1, 2}] : n \in 0..MaxValues}
        \cup {[i \in 1..n |-> 0] : n \in LongLens}

\* bytes of a buffer or of a response body
DataBytes == {1, 5, 204, 255}
BytesUpTo(n) == UNION {[1..k -> DataBytes] : k \in 0..n}

\* bodies of read responses: nothing, or a declared byte count and data
ReadBodies ==
    {<<>>} \cup {<<d>> \o data : d \in 0..MaxDeclared, data \in BytesUpTo(MaxData)}

\* the request ranges of the read parsers and of the iterators
ParseRanges == {r \in ValidRanges : r.start \in {0, 1, 65534, 65535} /\ r.count <= MaxCount}

\* the two bytes of a u16 on the wire, high byte first
be16(v) == <<v \div 256, v % 256>>

\* bodies of write responses: two u16, possibly cut short
IndexSample == {0, 5, 10, 65535}
EchoValues == {0, 1, 255, 65280, 65535}
EchoCounts == (0..(MaxValues + 1)) \cup {65535}
Prefixes(s) == {SubSeq(s, 1, n) : n \in 0..Len(s)}
EchoBodies(values) ==
    UNION {Prefixes(be16(a) \o be16(v)) : <<a, v>> \in IndexSample \X values}

BoolVecs == UNION {[1..n -> BOOLEAN] : n \in 0..MaxValues}

-----------------------------------------------------------------------------
\* types.rs, the bit iterator

Some(v) == [some |-> TRUE, val |-> v]
None == [some |-> FALSE]

NoIter == [live |-> FALSE]

\* BitIterator::create that accepts a buffer one byte short
BitIterator_create_short(bytes, range) ==
    IF Len(bytes) + 1 < num_bytes_for_bits(range.count)
    THEN Err(BadBitIteratorArgs)
    ELSE Ok([live |-> TRUE, bytes |-> bytes, range |-> range, pos |-> 0])

BitIterator_create(bytes, range) ==
    IF Len(bytes) < num_bytes_for_bits(range.count)
    THEN Err(BadBitIteratorArgs)
    ELSE Ok([live |-> TRUE, bytes |-> bytes, range |-> range, pos |-> 0])

\* <BitIterator as Iterator>::next: the item returned and the iterator after
\* the call; self.bytes.get(byte) is None past the end of the buffer
BitIterator_next(it) ==
    IF it.pos = it.range.count
    THEN [ret |-> None, it |-> it]
    ELSE LET byte == it.pos \div 8
             bit == it.pos % 8
         IN  IF byte < Len(it.bytes)
             THEN [ret |-> Some(BitOf(it.bytes[byte + 1], bit)),
                   it |-> [it EXCEPT !.pos = it.pos + 1]]
             ELSE [ret |-> None, it |-> it]

\* <BitIterator as Iterator>::size_hint
BitIterator_size_hint(it) ==
    LET remaining == it.range.count - it.pos
    IN  <<remaining, Some(remaining)>>

-----------------------------------------------------------------------------
\* types.rs, the register iterator

\* RegisterIterator::create that only refuses buffers that are too short
RegisterIterator_create_at_least(bytes, range) ==
    LET required_bytes == 2 * range.count
    IN  IF Len(bytes) < required_bytes
        THEN Err(BadRegisterIteratorArgs)
        ELSE Ok([live |-> TRUE, bytes |-> bytes, range |-> range, pos |-> 0])

RegisterIterator_create(bytes, range) ==
    LET required_bytes == 2 * range.count
    IN  IF Len(bytes) # required_bytes
        THEN Err(BadRegisterIteratorArgs)
        ELSE Ok([live |-> TRUE, bytes |-> bytes, range |-> range, pos |-> 0])

\* <RegisterIterator as Iterator>::next: self.bytes.get(pos..pos + 2) is
\* Some([high, low]) when both bytes are inside the buffer
RegisterIterator_next(it) ==
    IF it.pos = it.range.count
    THEN [ret |-> None, it |-> it]
    ELSE LET pos == 2 * it.pos
         IN  IF pos + 2 <= Len(it.bytes)
             THEN [ret |-> Some(it.bytes[pos + 1] * 256 + it.bytes[pos + 2]),
                   it |-> [it EXCEPT !.pos = it.pos + 1]]
             ELSE [ret |-> None, it |-> it]

\* <RegisterIterator as Iterator>::size_hint
RegisterIterator_size_hint(it) ==
    LET remaining == it.range.count - it.pos
    IN  <<remaining, Some(remaining)>>

-----------------------------------------------------------------------------
\* tcp/tls/client.rs, the verifier of the self-signed mode

\* A rustls::Certificate is its DER bytes; two certificates are equal when
\* their bytes are.  "X" stands for bytes that are not a certificate.
CertSample == {[der |-> "A"], [der |-> "B"], [der |-> "X"]}
NameSample == {"plc.local", "other.example"}
\* SystemTime in whole seconds since UNIX_EPOCH; -1 is a clock before it
TimeSample == -1..MaxTime
CertLists(n) == UNION {[1..k -> CertSample] : k \in 0..n}

General(n) == <<"rustls::Error::General", n>>
InvalidCertificateData(why) == <<"rustls::Error::InvalidCertificateData", why>>
FailedToGetCurrentTime == <<"rustls::Error::FailedToGetCurrentTime">>
InvalidPeerCertificate(why) == <<"TlsError::InvalidPeerCertificate", why>>

\* rx509::x509::Certificate::parse, as far as the verifier uses it: the
\* validity period of the certificate, or an error
rx509_parse(der) ==
    CASE der = "A" -> Ok([not_before |-> 2, not_after |-> 4])
      [] der = "B" -> Ok([not_before |-> 1, not_after |-> 3])
      [] OTHER -> Err("ASNError")

\* rx509 Validity::is_valid
is_valid(validity, now) == validity.not_before <= now /\ now <= validity.not_after

\* TlsClientConfig::new, the CertificateMode::SelfSigned arm: the verifier
\* is built from the only peer certificate
new_self_signed(peer_certs) ==
    IF Len(peer_certs) >= 1
    THEN IF Len(peer_certs) > 1
         THEN Err(InvalidPeerCertificate("more than one peer certificate in self-signed mode"))
         ELSE Ok([cert |-> peer_certs[Len(peer_certs)]])
    ELSE Err(InvalidPeerCertificate("no peer certificate"))

\* verify_server_cert that does not look at the validity period
verify_server_cert_no_validity(self, end_entity, intermediates, server_name, now) ==
    IF Len(intermediates) # 0
    THEN Err(General(Len(intermediates)))
    ELSE IF end_entity # self.cert
    THEN Err(InvalidCertificateData("doesn't match the expected self-signed certificate"))
    ELSE Ok("ServerCertVerified")

\* <SelfSignedCertificateServerCertVerifier as ServerCertVerifier>::verify_server_cert
verify_server_cert(self, end_entity, intermediates, server_name, now) ==
    IF Len(intermediates) # 0
    THEN Err(General(Len(intermediates)))
    ELSE IF end_entity # self.cert
    THEN Err(InvalidCertificateData("doesn't match the expected self-signed certificate"))
    ELSE LET parsed_cert == rx509_parse(end_entity.der)
         IN  IF ~parsed_cert.ok
             THEN Err(InvalidCertificateData("unable to parse cert with rasn"))
             ELSE IF now < 0
             THEN Err(FailedToGetCurrentTime)
             ELSE IF ~is_valid(parsed_cert.val, now)
             THEN Err(InvalidCertificateData("self-signed certificate is currently not valid"))
             ELSE Ok("ServerCertVerified")

-----------------------------------------------------------------------------
\* the client channel: tcp/tls/client.rs create_tls_channel and the task it
\* runs

Requests == 1..MaxRequests
NoRequest == [busy |-> FALSE]

\* the outcomes a reply slot can receive
Outcomes ==
    {"Success", "Exception", "ResponseTimeout", "Shutdown", "Transport",
     "ADUParseError", "InvalidRequest"}

\* the one-shot reply slot of request id receives an outcome
Deliver(id, outcome) == [replies EXCEPT ![id] = Append(@, outcome)]

\* the requests whose callers still wait: the one being served and those queued
Waiters ==
    (IF in_flight.busy THEN {in_flight.id} ELSE {})
        \cup {queue[i].id : i \in 1..Len(queue)}

\* every waiter receives Error::Shutdown
DrainWaiters ==
    [r \in Requests |->
        IF r \in Waiters THEN Append(replies[r], "Shutdown") ELSE replies[r]]

-----------------------------------------------------------------------------

Init ==
    /\ op = "idle"
    /\ inp = <<>>
    /\ res = <<>>
    /\ cursor = <<>>
    /\ bit_iter = NoIter
    /\ bit_out = <<>>
    /\ reg_iter = NoIter
    /\ reg_out = <<>>
    /\ state = "Disabled"
    /\ queue = <<>>
    /\ sender_dropped = FALSE
    /\ in_flight = NoRequest
    /\ replies = [r \in Requests |-> <<>>]
    /\ started = <<>>
    /\ wire = <<>>
    /\ conn = 0
    /\ step = "none"
    /\ issued = 0

TryFrom ==
    /\ op = "idle"
    /\ \E start \in StartSample, count \in CountSample :
        /\ inp' = [start |-> start, count |-> count]
        /\ res' = AddressRange_try_from(start, count)
    /\ op' = "try_from"
    /\ UNCHANGED <<cursor, bit_iter, bit_out, reg_iter, reg_out>>
    /\ UNCHANGED channel

CheckValidity ==
    /\ op = "idle"
    /\ \E fn \in Checks, range \in ValidRanges :
        /\ inp' = [fn |-> fn, range |-> range]
        /\ res' = check_validity_for(fn, range)
    /\ op' = "check_validity"
    /\ UNCHANGED <<cursor, bit_iter, bit_out, reg_iter, reg_out>>
    /\ UNCHANGED channel

CoilFromU16 ==
    /\ op = "idle"
    /\ \E value \in U16Sample :
        /\ inp' = [value |-> value]
        /\ res' = coil_from_u16(value)
    /\ op' = "coil_from_u16"
    /\ UNCHANGED <<cursor, bit_iter, bit_out, reg_iter, reg_out>>
    /\ UNCHANGED channel

CoilToU16 ==
    /\ op = "idle"
    /\ \E value \in BOOLEAN :
        /\ inp' = [value |-> value]
        /\ res' = coil_to_u16(value)
    /\ op' = "coil_to_u16"
    /\ UNCHANGED <<cursor, bit_iter, bit_out, reg_iter, reg_out>>
    /\ UNCHANGED channel

ToAddressRange ==
    /\ op = "idle"
    /\ \E start \in StartSample, values \in ValueVecs :
        /\ inp' = [request |-> WriteMultiple(start, values)]
        /\ res' = to_address_range(WriteMultiple(start, values))
    /\ op' = "to_address_range"
    /\ UNCHANGED <<cursor, bit_iter, bit_out, reg_iter, reg_out>>
    /\ UNCHANGED channel

\* A call of parse_response on a cursor over body: the result is returned
\* and the cursor is left where the parser stopped.  The checks argument of
\* the read parsers is the build's overflow-checks setting.
ParseBits ==
    /\ op = "idle"
    /\ \E body \in ReadBodies, request \in ParseRanges, checks \in BOOLEAN :
        LET rd == parse_response_bits(body, request, checks)
        IN  /\ inp' = [body |-> body, request |-> request]
            /\ res' = rd.ret
            /\ cursor' = rd.cursor
    /\ op' = "parse_response_bits"
    /\ UNCHANGED <<bit_iter, bit_out, reg_iter, reg_out>>
    /\ UNCHANGED channel

ParseRegisters ==
    /\ op = "idle"
    /\ \E body \in ReadBodies, request \in ParseRanges, checks \in BOOLEAN :
        LET rd == parse_response_registers(body, request, checks)
        IN  /\ inp' = [body |-> body, request |-> request]
            /\ res' = rd.ret
            /\ cursor' = rd.cursor
    /\ op' = "parse_response_registers"
    /\ UNCHANGED <<bit_iter, bit_out, reg_iter, reg_out>>
    /\ UNCHANGED channel

ParseIndexedU16 ==
    /\ op = "idle"
    /\ \E body \in EchoBodies(EchoValues), index \in IndexSample, value \in EchoValues :
        LET rd == parse_response_indexed_u16(body, Indexed(index, value))
        IN  /\ inp' = [body |-> body, request |-> Indexed(index, value)]
            /\ res' = rd.ret
            /\ cursor' = rd.cursor
    /\ op' = "parse_response_indexed_u16"
    /\ UNCHANGED <<bit_iter, bit_out, reg_iter, reg_out>>
    /\ UNCHANGED channel

ParseIndexedBool ==
    /\ op = "idle"
    /\ \E body \in EchoBodies(EchoValues), index \in IndexSample, value \in BOOLEAN :
        LET rd == parse_response_indexed_bool(body, Indexed(index, value))
        IN  /\ inp' = [body |-> body, request |-> Indexed(index, value)]
            /\ res' = rd.ret
            /\ cursor' = rd.cursor
    /\ op' = "parse_response_indexed_bool"
    /\ UNCHANGED <<bit_iter, bit_out, reg_iter, reg_out>>
    /\ UNCHANGED channel

ParseWriteMultipleBool ==
    /\ op = "idle"
    /\ \E body \in EchoBodies(EchoCounts), start \in IndexSample, values \in BoolVecs :
        LET rd == parse_response_write_multiple_bool(body, WriteMultiple(start, values))
        IN  /\ inp' = [body |-> body, request |-> WriteMultiple(start, values)]
            /\ res' = rd.ret
            /\ cursor' = rd.cursor
    /\ op' = "parse_response_write_multiple_bool"
    /\ UNCHANGED <<bit_iter, bit_out, reg_iter, reg_out>>
    /\ UNCHANGED channel

ParseWriteMultipleU16 ==
    /\ op = "idle"
    /\ \E body \in EchoBodies(EchoCounts), start \in IndexSample, values \in ValueVecs :
        LET rd == parse_response_write_multiple_u16(body, WriteMultiple(start, values))
        IN  /\ inp' = [body |-> body, request |-> WriteMultiple(start, values)]
            /\ res' = rd.ret
            /\ cursor' = rd.cursor
    /\ op' = "parse_response_write_multiple_u16"
    /\ UNCHANGED <<bit_iter, bit_out, reg_iter, reg_out>>
    /\ UNCHANGED channel

BitIteratorCreate ==
    /\ op = "idle"
    /\ \E bytes \in BytesUpTo(MaxIterBytes), range \in ParseRanges :
        LET created == BitIterator_create(bytes, range)
        IN  /\ inp' = [bytes |-> bytes, range |-> range]
            /\ res' = created
            /\ bit_iter' = IF created.ok THEN created.val ELSE NoIter
    /\ op' = "BitIterator::create"
    /\ UNCHANGED <<cursor, bit_out, reg_iter, reg_out>>
    /\ UNCHANGED channel

BitIteratorNext ==
    /\ bit_iter.live
    /\ LET r == BitIterator_next(bit_iter)
       IN  /\ res' = r.ret
           /\ bit_iter' = r.it
           /\ bit_out' = IF r.ret.some THEN Append(bit_out, r.ret.val) ELSE bit_out
    /\ op' = "BitIterator::next"
    /\ UNCHANGED <<inp, cursor, reg_iter, reg_out>>
    /\ UNCHANGED channel

BitIteratorSizeHint ==
    /\ bit_iter.live
    /\ op' = "BitIterator::size_hint"
    /\ res' = BitIterator_size_hint(bit_iter)
    /\ UNCHANGED <<inp, cursor, bit_iter, bit_out, reg_iter, reg_out>>
    /\ UNCHANGED channel

RegisterIteratorCreate ==
    /\ op = "idle"
    /\ \E bytes \in BytesUpTo(MaxRegIterBytes), range \in ParseRanges :
        LET created == RegisterIterator_create(bytes, range)
        IN  /\ inp' = [bytes |-> bytes, range |-> range]
            /\ res' = created
            /\ reg_iter' = IF created.ok THEN created.val ELSE NoIter
    /\ op' = "RegisterIterator::create"
    /\ UNCHANGED <<cursor, bit_iter, bit_out, reg_out>>
    /\ UNCHANGED channel

RegisterIteratorNext ==
    /\ reg_iter.live
    /\ LET r == RegisterIterator_next(reg_iter)
       IN  /\ res' = r.ret
           /\ reg_iter' = r.it
           /\ reg_out' = IF r.ret.some THEN Append(reg_out, r.ret.val) ELSE reg_out
    /\ op' = "RegisterIterator::next"
    /\ UNCHANGED <<inp, cursor, bit_iter, bit_out>>
    /\ UNCHANGED channel

RegisterIteratorSizeHint ==
    /\ reg_iter.live
    /\ op' = "RegisterIterator::size_hint"
    /\ res' = RegisterIterator_size_hint(reg_iter)
    /\ UNCHANGED <<inp, cursor, bit_iter, bit_out, reg_iter, reg_out>>
    /\ UNCHANGED channel

NewSelfSigned ==
    /\ op = "idle"
    /\ \E peer_certs \in CertLists(2) :
        /\ inp' = [peer_certs |-> peer_certs]
        /\ res' = new_self_signed(peer_certs)
    /\ op' = "TlsClientConfig::new"
    /\ UNCHANGED <<cursor, bit_iter, bit_out, reg_iter, reg_out>>
    /\ UNCHANGED channel

\* the TLS handshake hands the verifier built by TlsClientConfig::new the
\* certificates the server presented, the configured name and the time
VerifyServerCert ==
    /\ op = "idle"
    /\ \E peer_cert \in CertSample, end_entity \in CertSample,
          intermediates \in CertLists(MaxIntermediates),
          server_name \in NameSample, now \in TimeSample :
        LET self == new_self_signed(<<peer_cert>>).val
        IN  /\ inp' = [self |-> self, end_entity |-> end_entity,
                       intermediates |-> intermediates,
                       server_name |-> server_name, now |-> now]
            /\ res' = verify_server_cert(self, end_entity, intermediates, server_name, now)
    /\ op' = "verify_server_cert"
    /\ UNCHANGED <<cursor, bit_iter, bit_out, reg_iter, reg_out>>
    /\ UNCHANGED channel

Next ==
    \/ TryFrom
    \/ CheckValidity
    \/ CoilFromU16
    \/ CoilToU16
    \/ ToAddressRange
    \/ ParseBits
    \/ ParseRegisters
    \/ ParseIndexedU16
    \/ ParseIndexedBool
    \/ ParseWriteMultipleBool
    \/ ParseWriteMultipleU16
    \/ BitIteratorCreate
    \/ BitIteratorNext
    \/ BitIteratorSizeHint
    \/ RegisterIteratorCreate
    \/ RegisterIteratorNext
    \/ RegisterIteratorSizeHint
    \/ NewSelfSigned
    \/ VerifyServerCert

Spec == Init /\ [][Next]_vars

-----------------------------------------------------------------------------
\* the client channel

\* a caller sends a request with its reply slot into the bounded queue; the
\* send waits while the queue is full and fails once the task has ended
Send ==
    /\ issued < MaxRequests
    /\ ~sender_dropped
    /\ \E valid \in BOOLEAN :
        IF state = "Shutdown"
        THEN /\ replies' = Deliver(issued + 1, "Shutdown")
             /\ UNCHANGED queue
        ELSE /\ Len(queue) < QueueCapacity
             /\ queue' = Append(queue, [id |-> issued + 1, valid |-> valid])
             /\ UNCHANGED replies
    /\ issued' = issued + 1
    /\ UNCHANGED <<state, sender_dropped, in_flight, started, wire, conn, step>>
    /\ UNCHANGED library

\* the last handle of the channel is dropped
DropSender ==
    /\ ~sender_dropped
    /\ sender_dropped' = TRUE
    /\ UNCHANGED <<state, queue, in_flight, replies, started, wire, conn, step, issued>>
    /\ UNCHANGED library

Start ==
    /\ state = "Disabled"
    /\ state' = "Connecting"
    /\ step' = "start"
    /\ UNCHANGED <<queue, sender_dropped, in_flight, replies, started, wire, conn, issued>>
    /\ UNCHANGED library

ConnectSucceeded ==
    /\ state = "Connecting"
    /\ conn < MaxConnections
    /\ state' = "Connected"
    /\ conn' = conn + 1
    /\ step' = "connected"
    /\ UNCHANGED <<queue, sender_dropped, in_flight, replies, started, wire, issued>>
    /\ UNCHANGED library

ConnectFailed ==
    /\ state = "Connecting"
    /\ state' = "WaitAfterFailedConnect"
    /\ step' = "connect failed"
    /\ UNCHANGED <<queue, sender_dropped, in_flight, replies, started, wire, conn, issued>>
    /\ UNCHANGED library

\* the sleep after a failed connect or after a disconnect is over
RetryDelayElapsed ==
    /\ state \in {"WaitAfterFailedConnect", "WaitAfterDisconnect"}
    /\ state' = "Connecting"
    /\ step' = "retry"
    /\ UNCHANGED <<queue, sender_dropped, in_flight, replies, started, wire, conn, issued>>
    /\ UNCHANGED library

\* Receive that takes the next request while one is still being served
Receive_pipelined ==
    /\ state = "Connected"
    /\ queue # <<>>
    /\ in_flight' = [busy |-> TRUE, id |-> Head(queue).id,
                     valid |-> Head(queue).valid, written |-> FALSE]
    /\ queue' = Tail(queue)
    /\ started' = Append(started, [id |-> Head(queue).id, conn |-> conn])
    /\ step' = "receive"
    /\ UNCHANGED <<state, sender_dropped, replies, wire, conn, issued>>
    /\ UNCHANGED library

\* the queue receive of the Connected task returns the oldest request
Receive ==
    /\ state = "Connected"
    /\ ~in_flight.busy
    /\ queue # <<>>
    /\ in_flight' = [busy |-> TRUE, id |-> Head(queue).id,
                     valid |-> Head(queue).valid, written |-> FALSE]
    /\ queue' = Tail(queue)
    /\ started' = Append(started, [id |-> Head(queue).id, conn |-> conn])
    /\ step' = "receive"
    /\ UNCHANGED <<state, sender_dropped, replies, wire, conn, issued>>
    /\ UNCHANGED library

\* the queue receive returns nothing: every sender is gone and the queue is
\* drained
QueueClosed ==
    /\ state = "Connected"
    /\ ~in_flight.busy
    /\ queue = <<>>
    /\ sender_dropped
    /\ state' = "Shutdown"
    /\ step' = "queue closed"
    /\ UNCHANGED <<queue, sender_dropped, in_flight, replies, started, wire, conn, issued>>
    /\ UNCHANGED library

\* the pre-flight validity check fails: the error goes back to the caller and
\* the transport is not touched
PreflightRejected ==
    /\ in_flight.busy
    /\ ~in_flight.written
    /\ ~in_flight.valid
    /\ replies' = Deliver(in_flight.id, "InvalidRequest")
    /\ in_flight' = NoRequest
    /\ step' = "preflight rejected"
    /\ UNCHANGED <<state, queue, sender_dropped, started, wire, conn, issued>>
    /\ UNCHANGED library

\* the request is encoded and its full frame written
WriteFrame ==
    /\ in_flight.busy
    /\ ~in_flight.written
    /\ in_flight.valid
    /\ wire' = Append(wire, [id |-> in_flight.id, conn |-> conn])
    /\ in_flight' = [in_flight EXCEPT !.written = TRUE]
    /\ step' = "write"
    /\ UNCHANGED <<state, queue, sender_dropped, replies, started, conn, issued>>
    /\ UNCHANGED library

\* the transport fails while the frame is written
WriteFailed ==
    /\ in_flight.busy
    /\ ~in_flight.written
    /\ in_flight.valid
    /\ replies' = Deliver(in_flight.id, "Transport")
    /\ in_flight' = NoRequest
    /\ state' = "WaitAfterDisconnect"
    /\ step' = "write failed"
    /\ UNCHANGED <<queue, sender_dropped, started, wire, conn, issued>>
    /\ UNCHANGED library

\* the response frame arrives and decodes to a result or to an exception;
\* the connection is kept
ResponseReceived ==
    /\ in_flight.busy
    /\ in_flight.written
    /\ \E outcome \in {"Success", "Exception"} :
        replies' = Deliver(in_flight.id, outcome)
    /\ in_flight' = NoRequest
    /\ step' = "response"
    /\ UNCHANGED <<state, queue, sender_dropped, started, wire, conn, issued>>
    /\ UNCHANGED library

\* the response does not parse, or the transport fails or is closed by the
\* peer while the task reads
ResponseFailed ==
    /\ in_flight.busy
    /\ in_flight.written
    /\ \E outcome \in {"ADUParseError", "Transport"} :
        replies' = Deliver(in_flight.id, outcome)
    /\ in_flight' = NoRequest
    /\ state' = "WaitAfterDisconnect"
    /\ step' = "response failed"
    /\ UNCHANGED <<queue, sender_dropped, started, wire, conn, issued>>
    /\ UNCHANGED library

\* DeadlineExpired that keeps the connection
DeadlineExpired_keeps_connection ==
    /\ in_flight.busy
    /\ in_flight.written
    /\ replies' = Deliver(in_flight.id, "ResponseTimeout")
    /\ in_flight' = NoRequest
    /\ step' = "deadline expired"
    /\ UNCHANGED <<state, queue, sender_dropped, started, wire, conn, issued>>
    /\ UNCHANGED library

\* the deadline of the request expires before a response frame arrives
DeadlineExpired ==
    /\ in_flight.busy
    /\ in_flight.written
    /\ replies' = Deliver(in_flight.id, "ResponseTimeout")
    /\ in_flight' = NoRequest
    /\ state' = "WaitAfterDisconnect"
    /\ step' = "deadline expired"
    /\ UNCHANGED <<queue, sender_dropped, started, wire, conn, issued>>
    /\ UNCHANGED library

\* the shutdown signal cancels whatever the task waits for
Shutdown ==
    /\ state # "Shutdown"
    /\ state' = "Shutdown"
    /\ replies' = DrainWaiters
    /\ queue' = <<>>
    /\ in_flight' = NoRequest
    /\ step' = "shutdown"
    /\ UNCHANGED <<sender_dropped, started, wire, conn, issued>>
    /\ UNCHANGED library

ChannelNext ==
    \/ Send
    \/ DropSender
    \/ Start
    \/ ConnectSucceeded
    \/ ConnectFailed
    \/ RetryDelayElapsed
    \/ Receive
    \/ QueueClosed
    \/ PreflightRejected
    \/ WriteFrame
    \/ WriteFailed
    \/ ResponseReceived
    \/ ResponseFailed
    \/ DeadlineExpired
    \/ Shutdown

ChannelSpec == Init /\ [][ChannelNext]_vars

-----------------------------------------------------------------------------
\* Properties

\* the size of the 16-bit address space, 0x10000
AddressSpace == U16_MAX + 1

\* ceil(n / 8), as the least k with 8k >= n
CeilDiv8(n) == CHOOSE k \in 0..n : 8 * k >= n /\ 8 * (k - 1) < n

\* the u16 at bytes p, p+1 (from 1) of a body, high byte first
U16At(body, p) == body[p] * 256 + body[p + 1]

\* C1: AddressRange::try_from(start, count) is Ok exactly when count >= 1 and
\* start + count <= 0x10000; it is CountOfZero for count = 0 and
\* AddressOverflow(start, count) for count >= 1 and start + count > 0x10000;
\* so every constructed range has count >= 1 and start + count <= 0x10000.
C1_TryFromValidates ==
    op = "try_from" =>
        LET start == inp.start
            count == inp.count
        IN  /\ res.ok <=> (count >= 1 /\ start + count <= AddressSpace)
            /\ count = 0 => res = Err(CountOfZero)
            /\ (count >= 1 /\ start + count > AddressSpace) =>
                   res = Err(AddressOverflow(start, count))
            /\ res.ok =>
                   /\ res.val = AddressRange(start, count)
                   /\ res.val.count >= 1
                   /\ res.val.start + res.val.count <= AddressSpace

\* a range that ends on the last address is constructed
C1_Witness ==
    /\ op = "try_from"
    /\ res.ok
    /\ inp.count > 1
    /\ inp.start + inp.count = AddressSpace

\* C2: the pre-flight check of a range returns CountTooBigForType(count, max)
\* when count is above the maximum of the function (2000, 125, 1968, 123)
\* and Ok(()) for every count from 1 up to the maximum, whatever the start.
C2_CheckValidity ==
    op = "check_validity" =>
        LET count == inp.range.count
            max == MaxCountOf(inp.fn)
        IN  /\ count > max => res = Err(CountTooBigForType(count, max))
            /\ (1 <= count /\ count <= max) => res = Ok(<<>>)

\* ReadCoils with count 3000 is rejected with CountTooBigForType(3000, 2000)
C2_Witness ==
    /\ op = "check_validity"
    /\ inp.fn = "read_bits"
    /\ inp.range.count = 3000
    /\ inp.range.start # 0
    /\ res = Err(CountTooBigForType(3000, 2000))

\* C7: coil_to_u16(true) = 0xFF00, coil_to_u16(false) = 0x0000,
\* coil_from_u16(coil_to_u16(b)) = Ok(b), and coil_from_u16(v) is
\* UnknownCoilState(v) for every other v.
C7_CoilMapping ==
    /\ op = "coil_to_u16" =>
           /\ res = IF inp.value THEN 65280 ELSE 0
           /\ coil_from_u16(res) = Ok(inp.value)
    /\ op = "coil_from_u16" =>
           /\ inp.value = 65280 => res = Ok(TRUE)
           /\ inp.value = 0 => res = Ok(FALSE)
           /\ inp.value \notin {65280, 0} => res = Err(UnknownCoilState(inp.value))

\* a value next to 0xFF00 is refused
C7_Witness ==
    /\ op = "coil_from_u16"
    /\ inp.value = 65281
    /\ res = Err(UnknownCoilState(65281))

\* C9: to_address_range is CountTooBigForU16(len) for more than 0xFFFF values;
\* otherwise it is Ok(AddressRange(start, len)) exactly when
\* AddressRange::try_from(start, len) succeeds, an error when there are no
\* values or start + len > 0x10000, and never a range breaking the invariant.
C9_ToAddressRange ==
    op = "to_address_range" =>
        LET start == inp.request.start
            len == Len(inp.request.values)
        IN  /\ len > 65535 => res = Err(CountTooBigForU16(len))
            /\ len <= 65535 =>
                   /\ res.ok <=> AddressRange_try_from(start, len).ok
                   /\ res.ok => res.val = AddressRange(start, len)
            /\ (len = 0 \/ start + len > AddressSpace) => ~res.ok
            /\ res.ok => (res.val.count >= 1 /\ res.val.start + res.val.count <= AddressSpace)

\* a vector of 0x10000 values is refused
C9_Witness ==
    /\ op = "to_address_range"
    /\ Len(inp.request.values) = 65536
    /\ res = Err(CountTooBigForU16(65536))

\* the declared byte count of a read response and the bytes after it
Declared(body) == body[1]
Remaining(body) == Len(body) - 1

\* C3: a read-bits response whose declared byte count is ceil(count/8) and is
\* the number of bytes remaining parses to exactly count values, the i-th
\* (from 0) with index start + i and value bit (i mod 8) of data byte
\* (i div 8), low-order bit first; bits beyond count are ignored.
C3_ParseBits ==
    (/\ op = "parse_response_bits"
     /\ Len(inp.body) >= 1
     /\ Declared(inp.body) = CeilDiv8(inp.request.count)
     /\ Declared(inp.body) = Remaining(inp.body)) =>
        /\ res.ok
        /\ Len(res.val) = inp.request.count
        /\ \A i \in 0..(inp.request.count - 1) :
               res.val[i + 1] =
                   Indexed(inp.request.start + i,
                           (inp.body[2 + (i \div 8)] \div (2 ^ (i % 8))) % 2 = 1)

\* the body 01 05 for the range (0, 3) yields (0,true), (1,false), (2,true)
C3_Witness ==
    /\ op = "parse_response_bits"
    /\ inp.body = <<1, 5>>
    /\ inp.request = AddressRange(0, 3)
    /\ res = Ok(<<Indexed(0, TRUE), Indexed(1, FALSE), Indexed(2, TRUE)>>)

\* C4: a read-registers response whose declared byte count is 2*count and is
\* the number of bytes remaining parses to exactly count values, the i-th
\* with index start + i and value (byte[2i] << 8) | byte[2i+1].
C4_ParseRegisters ==
    (/\ op = "parse_response_registers"
     /\ Len(inp.body) >= 1
     /\ Declared(inp.body) = 2 * inp.request.count
     /\ Declared(inp.body) = Remaining(inp.body)) =>
        /\ res.ok
        /\ Len(res.val) = inp.request.count
        /\ \A i \in 0..(inp.request.count - 1) :
               res.val[i + 1] =
                   Indexed(inp.request.start + i, U16At(inp.body, 2 + 2 * i))

\* C5: a read response whose declared byte count differs from the count the
\* request implies (ceil(count/8) for bits, 2*count for registers) fails with
\* RequestByteCountMismatch(expected, declared), whatever bytes follow.
C5_ByteCountMismatch ==
    /\ (/\ op = "parse_response_bits"
        /\ Len(inp.body) >= 1
        /\ Declared(inp.body) # CeilDiv8(inp.request.count)) =>
           res = Err(RequestByteCountMismatch(CeilDiv8(inp.request.count),
                                              Declared(inp.body)))
    /\ (/\ op = "parse_response_registers"
        /\ Len(inp.body) >= 1
        /\ Declared(inp.body) # 2 * inp.request.count) =>
           res = Err(RequestByteCountMismatch(2 * inp.request.count,
                                              Declared(inp.body)))

\* two registers are declared and present where the request asked for one
C5_Witness ==
    /\ op = "parse_response_registers"
    /\ inp.request.count = 1
    /\ Len(inp.body) = 5
    /\ Declared(inp.body) = 4
    /\ res = Err(RequestByteCountMismatch(2, 4))

\* what a 4-byte write-single echo must be for the request, on the wire
EchoOf(request) ==
    be16(request.index) \o
        be16(IF op = "parse_response_indexed_bool"
             THEN coil_to_u16(request.value)
             ELSE request.value)

IsWriteSingle == op \in {"parse_response_indexed_u16", "parse_response_indexed_bool"}

\* C6 as stated: for a write-single request a 4-byte echo parses to
\* Ok(request) when its address and value equal the request's and to
\* ReplyEchoMismatch for every echo whose address or value differs.
C6_EchoMismatchForEveryDifference ==
    (IsWriteSingle /\ Len(inp.body) = 4) =>
        /\ inp.body = EchoOf(inp.request) => res = Ok(inp.request)
        /\ inp.body # EchoOf(inp.request) => res = Err(ReplyEchoMismatch)

\* C6 (amended): for a write-single request a 4-byte echo parses to
\* Ok(request) when its address and value equal the request's; a coil echo
\* whose value word is neither 0xFF00 nor 0x0000 fails with
\* UnknownCoilState(word); every other echo that differs from the request in
\* address or value fails with ReplyEchoMismatch.
C6_EchoChecked ==
    (IsWriteSingle /\ Len(inp.body) = 4) =>
        LET word == U16At(inp.body, 3)
            unknown == op = "parse_response_indexed_bool" /\ word \notin {65280, 0}
        IN  /\ inp.body = EchoOf(inp.request) => res = Ok(inp.request)
            /\ unknown => res = Err(UnknownCoilState(word))
            /\ (inp.body # EchoOf(inp.request) /\ ~unknown) =>
                   res = Err(ReplyEchoMismatch)

\* WriteSingleCoil(5, true) answered with the value bytes 00 01
C6_Witness ==
    /\ op = "parse_response_indexed_bool"
    /\ inp.request = Indexed(5, TRUE)
    /\ inp.body = <<0, 5, 0, 1>>
    /\ res = Err(UnknownCoilState(1))

IsWriteMultiple ==
    op \in {"parse_response_write_multiple_bool", "parse_response_write_multiple_u16"}

\* C8 as stated: for a write-multiple request with start s and n values the
\* response parses to Ok(AddressRange(s, n)) exactly when its decoded
\* (start, count) is (s, n), and to ReplyEchoMismatch when it differs.
C8_EchoDecidesAlone ==
    (IsWriteMultiple /\ Len(inp.body) = 4) =>
        LET s == inp.request.start
            n == Len(inp.request.values)
            decoded == <<U16At(inp.body, 1), U16At(inp.body, 3)>>
        IN  /\ res = Ok(AddressRange(s, n)) <=> decoded = <<s, n>>
            /\ decoded # <<s, n>> => res = Err(ReplyEchoMismatch)

\* C8 (amended): when the request's values make a valid range (n >= 1,
\* s + n <= 0x10000) the response parses to Ok(AddressRange(s, n)) exactly
\* when its decoded (start, count) is (s, n), to ReplyEchoMismatch when it
\* decodes to another valid range, and to an error when it decodes to no
\* valid range; when the values make no valid range the parse fails with the
\* error of to_address_range and reads nothing.
C8_EchoOfValidRequest ==
    (IsWriteMultiple /\ Len(inp.body) = 4) =>
        LET s == inp.request.start
            n == Len(inp.request.values)
            ds == U16At(inp.body, 1)
            dc == U16At(inp.body, 3)
        IN  IF n >= 1 /\ s + n <= AddressSpace /\ n <= U16_MAX
            THEN /\ res = Ok(AddressRange(s, n)) <=> <<ds, dc>> = <<s, n>>
                 /\ (<<ds, dc>> # <<s, n>> /\ dc >= 1 /\ ds + dc <= AddressSpace) =>
                        res = Err(ReplyEchoMismatch)
                 /\ <<ds, dc>> # <<s, n>> => ~res.ok
            ELSE /\ ~res.ok
                 /\ n = 0 => res = Err(CountOfZero)
                 /\ (1 <= n /\ n <= U16_MAX) => res = Err(AddressOverflow(s, n))
                 /\ n > U16_MAX => res = Err(CountTooBigForU16(n))

\* start 10 with two values answered by 00 0A 00 02
C8_Witness ==
    /\ op = "parse_response_write_multiple_u16"
    /\ inp.request.start = 10
    /\ Len(inp.request.values) = 2
    /\ inp.body = <<0, 10, 0, 2>>
    /\ res = Ok(AddressRange(10, 2))

IsBitIteratorCall ==
    op \in {"BitIterator::create", "BitIterator::next", "BitIterator::size_hint"}

\* C10: BitIterator::create fails with BadBitIteratorArgs exactly when
\* bytes.len() < ceil(count/8); a created iterator yields exactly count
\* booleans, the i-th being bit (i mod 8) of byte (i div 8), then None, and
\* size_hint is (r, Some(r)) for the number r of items still to be yielded.
C10_BitIterator ==
    IsBitIteratorCall =>
        LET bytes == inp.bytes
            count == inp.range.count
            short == Len(bytes) < CeilDiv8(count)
        IN  /\ op = "BitIterator::create" =>
                   /\ short <=> res = Err(BadBitIteratorArgs)
                   /\ ~short <=> res.ok
            /\ bit_iter.live <=> ~short
            /\ Len(bit_out) <= count
            /\ \A i \in 0..(Len(bit_out) - 1) :
                   bit_out[i + 1] = ((bytes[1 + (i \div 8)] \div (2 ^ (i % 8))) % 2 = 1)
            /\ op = "BitIterator::next" =>
                   /\ res.some => (bit_out # <<>> /\ res.val = bit_out[Len(bit_out)])
                   /\ ~res.some => Len(bit_out) = count
            /\ op = "BitIterator::size_hint" =>
                   res = <<count - Len(bit_out), Some(count - Len(bit_out))>>

\* nine bits were read out of two bytes and the iterator is exhausted
C10_Witness ==
    /\ op = "BitIterator::next"
    /\ res = None
    /\ Len(inp.bytes) = 2
    /\ inp.range.count = 9
    /\ Len(bit_out) = 9

IsRegisterIteratorCall ==
    op \in {"RegisterIterator::create", "RegisterIterator::next",
            "RegisterIterator::size_hint"}

\* C11: RegisterIterator::create fails with BadRegisterIteratorArgs exactly
\* when bytes.len() # 2*count; a created iterator yields exactly count
\* registers, the i-th being (bytes[2i] << 8) | bytes[2i+1], then None, and
\* size_hint is (r, Some(r)) for the number r of items still to be yielded.
C11_RegisterIterator ==
    IsRegisterIteratorCall =>
        LET bytes == inp.bytes
            count == inp.range.count
            bad == Len(bytes) # 2 * count
        IN  /\ op = "RegisterIterator::create" =>
                   /\ bad <=> res = Err(BadRegisterIteratorArgs)
                   /\ ~bad <=> res.ok
            /\ reg_iter.live <=> ~bad
            /\ Len(reg_out) <= count
            /\ \A i \in 0..(Len(reg_out) - 1) :
                   reg_out[i + 1] = U16At(bytes, 2 * i + 1)
            /\ op = "RegisterIterator::next" =>
                   /\ res.some => (reg_out # <<>> /\ res.val = reg_out[Len(reg_out)])
                   /\ ~res.some => Len(reg_out) = count
            /\ op = "RegisterIterator::size_hint" =>
                   res = <<count - Len(reg_out), Some(count - Len(reg_out))>>

\* the buffer FF FF 01 CC over the range (1, 2) gave 0xFFFF, 0x01CC and ended
C11_Witness ==
    /\ op = "RegisterIterator::next"
    /\ res = None
    /\ inp.bytes = <<255, 255, 1, 204>>
    /\ inp.range = AddressRange(1, 2)
    /\ reg_out = <<65535, 460>>

IsReadParse == op \in {"parse_response_bits", "parse_response_registers"}

\* the byte count the request implies for the response being parsed
ExpectedByteCount ==
    IF op = "parse_response_bits"
    THEN CeilDiv8(inp.request.count)
    ELSE 2 * inp.request.count

\* C15: a read response whose declared byte count is the one the request
\* implies but is not the number of bytes remaining (fewer, or surplus) fails
\* with InsufficientBytesForByteCount(declared, remaining); when the declared
\* count also differs from the request's, RequestByteCountMismatch is the
\* error; a successful parse leaves nothing of the body unread.
C15_RemainingBytesChecked ==
    (IsReadParse /\ Len(inp.body) >= 1) =>
        LET declared == Declared(inp.body)
            remaining == Remaining(inp.body)
        IN  /\ (declared = ExpectedByteCount /\ declared # remaining) =>
                   res = Err(InsufficientBytesForByteCount(declared, remaining))
            /\ (declared # ExpectedByteCount /\ declared # remaining) =>
                   res = Err(RequestByteCountMismatch(ExpectedByteCount, declared))
            /\ res.ok => cursor = <<>>

\* one register is declared, as asked for, and two more bytes follow
C15_Witness ==
    /\ op = "parse_response_registers"
    /\ inp.request.count = 1
    /\ Len(inp.body) = 5
    /\ Declared(inp.body) = 2
    /\ res = Err(InsufficientBytesForByteCount(2, 4))

\* C16: for every valid request range, ranges ending at address 0xFFFF
\* included, and every well-formed response the read parsers compute no u16
\* above 0xFFFF, so parsing returns its values and does not overflow.
C16_NoOverflow ==
    (/\ IsReadParse
     /\ Len(inp.body) >= 1
     /\ Declared(inp.body) = ExpectedByteCount
     /\ Declared(inp.body) = Remaining(inp.body)) =>
        /\ res # Panic
        /\ res.ok

\* the validity periods of the sample certificates, none for other bytes
NotBefore(cert) == CASE cert.der = "A" -> 2 [] cert.der = "B" -> 1 [] OTHER -> 1
NotAfter(cert) == CASE cert.der = "A" -> 4 [] cert.der = "B" -> 3 [] OTHER -> 0

\* C12: in self-signed mode the verifier accepts a presented certificate only
\* if no intermediates are presented, the end-entity certificate is
\* byte-for-byte the one preconfigured certificate and the current time is
\* within that certificate's validity period; any failing condition is an
\* error, and the outcome is the same for every server name.
C12_SelfSignedVerifier ==
    op = "verify_server_cert" =>
        LET accepted ==
                /\ Len(inp.intermediates) = 0
                /\ inp.end_entity = inp.self.cert
                /\ NotBefore(inp.self.cert) <= inp.now
                /\ inp.now <= NotAfter(inp.self.cert)
        IN  /\ res.ok => accepted
            /\ ~accepted => ~res.ok
            /\ \A name \in NameSample :
                   verify_server_cert(inp.self, inp.end_entity, inp.intermediates,
                                      name, inp.now) = res

\* the expected certificate is presented alone after it has expired
C12_Witness ==
    /\ op = "verify_server_cert"
    /\ inp.self.cert = [der |-> "A"]
    /\ inp.end_entity = [der |-> "A"]
    /\ inp.intermediates = <<>>
    /\ inp.now = 5
    /\ ~res.ok

\* C13: at most one request is in flight on a channel: when a request frame
\* is written every frame written before it belongs to a resolved request,
\* and every request taken from the queue has exactly one outcome in its
\* reply slot before the next one is taken; no slot ever holds two outcomes.
C13_OneInFlight ==
    /\ \A r \in Requests : Len(replies[r]) <= 1
    /\ \A i \in 1..Len(started) :
          i < Len(started) => Len(replies[started[i].id]) = 1
    /\ \A i \in 1..Len(wire) :
          i < Len(wire) => Len(replies[wire[i].id]) = 1
    /\ \A i, j \in 1..Len(started) : i # j => started[i].id # started[j].id

\* a second frame is on the wire while its request waits for the response
C13_Witness ==
    /\ Len(wire) = 2
    /\ in_flight.busy
    /\ in_flight.written
    /\ in_flight.id = wire[2].id
    /\ Len(replies[wire[1].id]) = 1
    /\ replies[in_flight.id] = <<>>

\* C14: when the deadline of the request in flight expires while the channel
\* is Connected, its caller receives ResponseTimeout and the channel is in
\* WaitAfterDisconnect; the channel leaves WaitAfterDisconnect only for
\* Connecting or, on shutdown, for Shutdown; and no request is served on a
\* connection after a request timed out on it.
C14_Timeout ==
    /\ [](step = "deadline expired" =>
            /\ state = "WaitAfterDisconnect"
            /\ started # <<>>
            /\ replies[started[Len(started)].id] = <<"ResponseTimeout">>)
    /\ [][(state = "WaitAfterDisconnect" /\ state' # state) =>
            state' \in {"Connecting", "Shutdown"}]_vars
    /\ [](\A i, j \in 1..Len(started) :
            (i < j /\ replies[started[i].id] = <<"ResponseTimeout">>) =>
                started[j].conn # started[i].conn)

\* a request timed out and the next one is served after a reconnect
C14_Witness ==
    /\ Len(started) = 2
    /\ replies[started[1].id] = <<"ResponseTimeout">>
    /\ started[1].conn = 1
    /\ started[2].conn = 2
    /\ state = "Connected"

====
